---- MODULE Spec2Model ----
(***************************************************************************)
(* The private-transfer pipeline scripts of the repository and the         *)
(* PrivateTransferVault contract they talk to.                             *)
(*                                                                         *)
(* One script process runs at a time (relayer.js, demo-complete-flow.js,   *)
(* scripts/test-sepolia.js in its two versions); the chain (the calls it   *)
(* received, the vault's event log) persists from one run to the next.     *)
(* The JSON-RPC node, the clock and the chain are the environment: the     *)
(* accounts the node exposes, the signature it returns for personal_sign,  *)
(* whether it accepts, mines or drops a transaction, and which contract    *)
(* lives at the configured address are inputs.                             *)
(*                                                                         *)
(* Spec is the pipeline scripts run one after the other.  The other        *)
(* specifications put the same steps in other settings: MiningSpec (a      *)
(* chain that mines every transaction, with fairness), PayloadSpec         *)
(* (relayer.js handed valid and invalid payloads), ConcurrentSpec (two     *)
(* relayer.js processes at once), StepByStepSpec (demo.js, then            *)
(* relayer.js) and DeploySpec (scripts/deploy.js).                         *)
(***************************************************************************)
EXTENDS Integers, Sequences, FiniteSets, TLC

(***************************************************************************)
(* Bounds of the model.                                                    *)
(***************************************************************************)
MaxRuns == 2        \* script runs in one behaviour
MaxTicks == 2       \* clock ticks in one behaviour
TickMs == 500       \* milliseconds per clock tick
DeadlineTicks == 1  \* the deadline a caller would give the confirmation wait

MsPerSecond == 1000

VARIABLES
    ticks,            \* clock: Date.now() is ticks * TickMs
    runs,             \* number of script runs started so far
    script,           \* the script the current run executes
    pc,               \* position of the run in main()
    accounts,         \* the accounts the node / hardhat config exposes
    contractAddress,  \* <<address>> of the contract the run talks to
    record,           \* <<transfer payload>>
    commitment,       \* <<commitment>>
    signature,        \* <<signature>> (demo-complete-flow)
    isValid,          \* "unset", "true", "false" (demo-complete-flow)
    tx,               \* <<transaction handle>> returned by submitTransfer
    receipt,          \* <<receipt>> returned by tx.wait()
    error,            \* <<error>> thrown out of main()
    stdout,           \* messages the run logged with console.log
    stderr,           \* <<error>> the run logged with console.error
    exitStatus,       \* <<status>> the process ended with
    calls,            \* the submitTransfer invocations of the run
    deployed,         \* number of PrivateTransferVault instances deployed
    vaultLog,         \* events emitted by the deployed vaults, in order
    vaultStorage,     \* storage slots written by the deployed vaults
    userSigned,       \* <<{messageHash, signature}>> demo.js printed last
    addressFile,      \* content of .contract-address: <<>> or <<address>>
    other,            \* a second relayer.js process run at the same time
    processEnv,       \* process.env.CONTRACT_ADDRESS: <<>> or <<value>>
    sepoliaAddressFile \* .sepolia-contract-address: <<>> or <<content>>

vars == <<ticks, runs, script, pc, accounts, contractAddress, record,
          commitment, signature, isValid, tx, receipt, error, stdout, stderr,
          exitStatus, calls, deployed, vaultLog, vaultStorage, userSigned,
          addressFile, other, processEnv, sepoliaAddressFile>>

runVars == <<script, accounts, contractAddress, record, commitment, signature,
             isValid, tx, receipt, error, stdout, stderr, exitStatus, calls>>

chainVars == <<deployed, vaultLog, vaultStorage>>

\* what the pipeline scripts of one process neither read nor write
sepoliaConfig == <<processEnv, sepoliaAddressFile>>

extVars == <<userSigned, addressFile, other, sepoliaConfig>>

(***************************************************************************)
(* Scripts.                                                                *)
(***************************************************************************)
Scripts == {"relayer", "completeFlow", "testSepolia", "testSepoliaBasic"}

SepoliaScripts == {"testSepolia", "testSepoliaBasic"}

(***************************************************************************)
(* Addresses.  A JavaScript address string is its 20 bytes together with   *)
(* the letter case it is written in: the scripts hold lower-case literals, *)
(* checksummed literals and checksummed values returned by getAddress.     *)
(***************************************************************************)
HardhatAccount0 == "f39fd6e51aad88f6f4ce6ab8827279cfffb92266"
HardhatAccount1 == "70997970c51812dc3a010c7d01b50e0d17dc79c8"
HardhatAccount2 == "3c44cdddb6a900fa2b585dd299e03d12fa4293bc"
SepoliaAccountA == "24776c87d7df39d3bb2f4accabe8640b650910db"
SepoliaAccountB == "e827d360efc5277673e0eff7a8cfc69504a89bc2"
\* what ecrecover yields for a digest the signature was not made over
UnrelatedAccount == "unrelated"

AddressString(bytes, form) == [bytes |-> bytes, form |-> form]

getAddress(bytes) == AddressString(bytes, "checksum")

toLowerCase(a) == AddressString(a.bytes, "lower")

\* the account lists a node or a hardhat network configuration can expose
NodeAccountLists ==
    { <<HardhatAccount0, HardhatAccount1>>,
      <<SepoliaAccountA, SepoliaAccountB>> }

(***************************************************************************)
(* Commitment codec.                                                       *)
(***************************************************************************)
Date_now == ticks * TickMs

\* the forms of an address string the address coder accepts: all lower
\* case or correctly checksummed; a string with a wrong checksum or a wrong
\* length is refused
ValidAddressForms == {"lower", "checksum"}

isAddress(a) == a.form \in ValidAddressForms

\* 2^256, the first amount that does not fit a uint256
TwoTo256 ==
    "115792089237316195423570985008687907853269984665640564039457584007913129639936"

\* amounts the uint256 coder refuses
OutOfRangeAmounts == {"-1", TwoTo256}

\* the error abiCoder.encode throws for the values, "none" when it encodes
abiEncodeError(sender, recipient, amount, timestamp) ==
    IF ~isAddress(sender) \/ ~isAddress(recipient) THEN "InvalidAddress"
    ELSE IF amount \in OutOfRangeAmounts THEN "AmountOverflow"
    ELSE "none"

\* fault variant: the four words as an unordered collection
abiEncodeUnordered(sender, recipient, amount, timestamp) ==
    {sender.bytes, recipient.bytes, amount, ToString(timestamp)}

\* abiCoder.encode(["address","address","uint256","uint256"], [...]): four
\* 32-byte words; an address word holds the 20 bytes whatever the case of
\* the string, a uint256 word holds the number (written here in decimal:
\* the amount is a decimal string or a BigNumber, the timestamp a number).
abiEncode(sender, recipient, amount, timestamp) ==
    <<sender.bytes, recipient.bytes, amount, ToString(timestamp)>>

\* an ideal hash: the digest stands for its preimage and nothing else
keccak256(bytes) == [keccak256 |-> bytes]

createCommitment(r) ==
    keccak256(abiEncode(r.sender, r.recipient, r.amount, r.timestamp))

\* fault variant: demo.js encodes the recipient before the sender
messageHashRecipientFirst(payload) ==
    keccak256(abiEncode(payload.recipient, payload.sender, payload.amount,
                        payload.timestamp))

\* demo.js, signPayload: message, messageHash
messageHash(payload) ==
    keccak256(abiEncode(payload.sender, payload.recipient, payload.amount,
                        payload.timestamp))

\* demo-complete-flow.js: encodedData, commitment
completeFlowCommitment(tp) ==
    keccak256(abiEncode(tp.sender, tp.recipient, tp.amount, tp.timestamp))

\* scripts/test-sepolia.js (both versions): encoded, commitment
sepoliaCommitment(sender, recipient, amount, timestamp) ==
    keccak256(abiEncode(sender, recipient, amount, timestamp))

TransferRecord(sender, recipient, amount, timestamp) ==
    [sender |-> sender, recipient |-> recipient, amount |-> amount,
     timestamp |-> timestamp]

\* relayer.js: module-level constant, built when the module is loaded
encryptedPayload ==
    TransferRecord(AddressString(HardhatAccount0, "lower"),
                   AddressString(HardhatAccount1, "lower"),
                   "1000", Date_now)

decryptPayload(payload) == payload

\* demo.js: module-level constant, built when the module is loaded
payload ==
    TransferRecord(AddressString(HardhatAccount0, "lower"),
                   AddressString(HardhatAccount1, "lower"),
                   "1000", Date_now)

\* demo-complete-flow.js: transferPayload
transferPayload(userAddr) ==
    TransferRecord(userAddr, AddressString(HardhatAccount2, "checksum"),
                   "1000", Date_now)

\* scripts/test-sepolia.js: sender, recipient, amount, timestamp
sepoliaTransfer ==
    TransferRecord(AddressString(SepoliaAccountA, "checksum"),
                   AddressString(SepoliaAccountB, "checksum"),
                   "15000000000000000", Date_now \div MsPerSecond)

\* the earlier scripts/test-sepolia.js: sender = signerAddress
sepoliaBasicTransfer(signerAddress) ==
    TransferRecord(signerAddress, AddressString(SepoliaAccountA, "checksum"),
                   "1000000000000000", Date_now \div MsPerSecond)

(***************************************************************************)
(* Authenticator.                                                          *)
(***************************************************************************)
\* the EIP-191 digest signMessage and verifyMessage compute over the bytes
hashMessage(message) == [eip191 |-> message]

signMessage(signer, message) ==
    [wellFormed |-> TRUE, signer |-> signer, digest |-> hashMessage(message)]

MalformedSignature ==
    [wellFormed |-> FALSE, signer |-> UnrelatedAccount,
     digest |-> hashMessage(keccak256(<<>>))]

\* verifyMessage throws on a malformed signature
verifyMessageThrows(sig) == ~sig.wellFormed

verifyMessage(message, sig) ==
    IF sig.digest = hashMessage(message)
    THEN getAddress(sig.signer)
    ELSE getAddress(UnrelatedAccount)

\* another commitment a signature can have been made over
OtherCommitment(r) ==
    createCommitment([r EXCEPT !.timestamp = r.timestamp + 1])

\* what the node can return for personal_sign
SignatureInputs(user, r) ==
    { signMessage(user, createCommitment(r)),
      signMessage(IF user = HardhatAccount1 THEN HardhatAccount0
                  ELSE HardhatAccount1, createCommitment(r)),
      signMessage(user, OtherCommitment(r)),
      MalformedSignature }

(***************************************************************************)
(* The chain.                                                              *)
(***************************************************************************)
VaultAddress(n) == [kind |-> "vault", id |-> n]

\* an address whose code is not PrivateTransferVault
ForeignAddress == [kind |-> "foreign", id |-> 0]

PrivateTransfer(c) == [event |-> "PrivateTransfer", commitment |-> c]

\* fault variant: the vault also keeps the commitment in its storage
submitTransferStoring(at, log, storage, c) ==
    [log |-> Append(log, [address |-> at, event |-> PrivateTransfer(c)]),
     storage |-> storage \cup {c},
     events |-> <<PrivateTransfer(c)>>,
     reverts |-> FALSE]

\* fault variant: the vault accepts the call and emits nothing
submitTransferSilent(at, log, storage, c) ==
    [log |-> log, storage |-> storage, events |-> <<>>, reverts |-> FALSE]

\* fault variant: the vault refuses a commitment it has already emitted
submitTransferOnce(at, log, storage, c) ==
    [log |-> Append(log, [address |-> at, event |-> PrivateTransfer(c)]),
     storage |-> storage,
     events |-> <<PrivateTransfer(c)>>,
     reverts |-> \E i \in 1..Len(log) :
                    log[i] = [address |-> at, event |-> PrivateTransfer(c)]]

\* PrivateTransferVault.submitTransfer: what a mined call does to the log
\* and to the storage of the contract at address `at`; the function has no
\* require and never reverts
submitTransfer(at, log, storage, c) ==
    [log |-> Append(log, [address |-> at, event |-> PrivateTransfer(c)]),
     storage |-> storage,
     events |-> <<PrivateTransfer(c)>>,
     reverts |-> FALSE]

\* what the code at a foreign address can emit for a call
ForeignEmissions(r) ==
    { <<>>,
      <<PrivateTransfer(createCommitment(r))>>,
      <<PrivateTransfer(OtherCommitment(r))>> }

(***************************************************************************)
(* The run: helpers.                                                       *)
(***************************************************************************)
\* the account that sends the run's transactions: provider.getSigner() /
\* hre.ethers.getSigners()[0], and provider.getSigner(1) in the complete flow
relayerAccount(s, accts) == IF s = "completeFlow" THEN accts[2] ELSE accts[1]

\* provider.getSigner(0) in the complete flow
userAccount(accts) == accts[1]

Thrown(kind) == <<[kind |-> kind, at |-> pc]>>

\* fault variant: the call also carries the sender of the record
submitTransferCallWithSender(from, to, c) ==
    [run |-> runs, from |-> from, to |-> to, args |-> <<c, record[1].sender>>]

\* contract.submitTransfer(commitment): the transaction the run sends
submitTransferCall(from, to, c) ==
    [run |-> runs, from |-> from, to |-> to, args |-> <<c>>]

\* fault variant: the comparison always succeeds
verifyReceiptAlwaysMatch(expected, emittedCommitment) == "Match"

\* the comparison of scripts/test-sepolia.js, step 5
verifyReceipt(expected, emittedCommitment) ==
    IF emittedCommitment = expected THEN "Match" ELSE "Mismatch"

\* the top-level handler of a rejected main(): process.exit(1) in every
\* script but relayer.js, whose main().catch(console.error) lets the
\* process end by itself
exitStatusOnError(s) == IF s \in {"relayer", "demo"} THEN 0 ELSE 1

hasPrivateTransfer(events) ==
    \E i \in 1..Len(events) : events[i].event = "PrivateTransfer"

\* the state of a relayer.js process that was not started
NotStarted ==
    [pc |-> "idle", contractAddress |-> <<>>, record |-> <<>>,
     commitment |-> <<>>, tx |-> <<>>, receipt |-> <<>>, error |-> <<>>,
     calls |-> <<>>]

(***************************************************************************)
(* Init and the steps of a run.                                            *)
(***************************************************************************)
Init ==
    /\ ticks = 0
    /\ runs = 0
    /\ script = "relayer"
    /\ pc = "idle"
    /\ accounts = <<HardhatAccount0, HardhatAccount1>>
    /\ contractAddress = <<>>
    /\ record = <<>>
    /\ commitment = <<>>
    /\ signature = <<>>
    /\ isValid = "unset"
    /\ tx = <<>>
    /\ receipt = <<>>
    /\ error = <<>>
    /\ stdout = {}
    /\ stderr = <<>>
    /\ exitStatus = <<>>
    /\ calls = <<>>
    /\ deployed = 1         \* the vault already deployed to Sepolia
    /\ vaultLog = <<>>
    /\ vaultStorage = {}
    /\ userSigned = <<>>
    /\ addressFile = <<>>
    /\ other = NotStarted
    /\ processEnv = <<>>
    /\ sepoliaAddressFile = <<>>

\* the clock advances
Tick ==
    /\ ticks < MaxTicks
    /\ ticks' = ticks + 1
    /\ UNCHANGED <<runs, pc, runVars, chainVars>>
    /\ UNCHANGED extVars

\* a fresh process of script s, nothing kept from the previous one, with
\* the module-level payload it holds once loaded
StartProcess(s, loaded) ==
    /\ pc \in {"idle", "exited"}
    /\ runs < MaxRuns
    /\ runs' = runs + 1
    /\ script' = s
    /\ pc' = IF s = "demo" THEN "userSign" ELSE "connect"
    /\ record' = loaded
    /\ contractAddress' = <<>>
    /\ commitment' = <<>>
    /\ signature' = <<>>
    /\ isValid' = "unset"
    /\ tx' = <<>>
    /\ receipt' = <<>>
    /\ error' = <<>>
    /\ stdout' = {}
    /\ stderr' = <<>>
    /\ exitStatus' = <<>>
    /\ calls' = <<>>
    /\ accounts' = <<HardhatAccount0, HardhatAccount1>>
    /\ UNCHANGED <<ticks, chainVars>>
    /\ UNCHANGED extVars

\* the caller starts a script.  relayer.js builds encryptedPayload while
\* loading.
StartRun(s) ==
    StartProcess(s, IF s = "relayer" THEN <<encryptedPayload>> ELSE <<>>)

\* relayer.js, demo-complete-flow.js: get the signers and deploy a vault
ConnectAndDeploy ==
    /\ pc = "connect"
    /\ script \in {"relayer", "completeFlow"}
    /\ \E accts \in NodeAccountLists : accounts' = accts
    /\ deployed' = deployed + 1
    /\ contractAddress' = <<VaultAddress(deployed + 1)>>
    /\ pc' = "build"
    /\ UNCHANGED <<ticks, runs, script, record, commitment, signature,
                   isValid, tx, receipt, error, stdout, stderr, exitStatus,
                   calls, vaultLog, vaultStorage>>
    /\ UNCHANGED extVars

\* scripts/test-sepolia.js: the address from CONTRACT_ADDRESS or from
\* .sepolia-contract-address, the configured signer, attach
ConnectAndAttach ==
    /\ pc = "connect"
    /\ script \in SepoliaScripts
    /\ \E accts \in NodeAccountLists : accounts' = accts
    /\ \E a \in {VaultAddress(n) : n \in 1..deployed} \cup {ForeignAddress} :
           contractAddress' = <<a>>
    /\ pc' = "build"
    /\ UNCHANGED <<ticks, runs, script, record, commitment, signature,
                   isValid, tx, receipt, error, stdout, stderr, exitStatus, calls,
                   chainVars>>
    /\ UNCHANGED extVars

\* the node is unreachable, the deployment fails, or the address file is
\* missing: main() rejects before any transfer is built
ConnectThrows ==
    /\ pc = "connect"
    /\ error' = Thrown("ConnectError")
    /\ pc' = "rejected"
    /\ UNCHANGED <<ticks, runs, script, accounts, contractAddress, record,
                   commitment, signature, isValid, tx, receipt, stdout,
                   stderr, exitStatus, calls, chainVars>>
    /\ UNCHANGED extVars

\* the transfer of the run
buildRecord ==
    CASE script = "relayer" -> decryptPayload(record[1])
      [] script = "completeFlow" ->
             transferPayload(getAddress(userAccount(accounts)))
      [] script = "testSepolia" -> sepoliaTransfer
      [] script = "testSepoliaBasic" ->
             sepoliaBasicTransfer(getAddress(relayerAccount(script, accounts)))

\* the commitment as the script of the run computes it
commitmentOf(s, r) ==
    CASE s = "relayer" -> createCommitment(r)
      [] s = "completeFlow" -> completeFlowCommitment(r)
      [] s \in SepoliaScripts ->
             sepoliaCommitment(r.sender, r.recipient, r.amount, r.timestamp)

\* fault variant: the values are encoded without being checked
BuildCommitmentUnchecked ==
    /\ pc = "build"
    /\ record' = <<buildRecord>>
    /\ commitment' = <<commitmentOf(script, buildRecord)>>
    /\ pc' = IF script = "completeFlow" THEN "sign" ELSE "submit"
    /\ UNCHANGED <<ticks, runs, script, accounts, contractAddress, signature,
                   isValid, tx, receipt, error, stdout, stderr, exitStatus, calls,
                   chainVars>>
    /\ UNCHANGED extVars

\* build the transfer and derive its commitment; abiCoder.encode throws
\* out of main() when a value does not fit its type
BuildCommitment ==
    /\ pc = "build"
    /\ record' = <<buildRecord>>
    /\ LET r == buildRecord
           e == abiEncodeError(r.sender, r.recipient, r.amount, r.timestamp)
       IN IF e = "none"
          THEN /\ commitment' = <<commitmentOf(script, r)>>
               /\ pc' = IF script = "completeFlow" THEN "sign" ELSE "submit"
               /\ UNCHANGED error
          ELSE /\ error' = Thrown(e)
               /\ pc' = "rejected"
               /\ UNCHANGED commitment
    /\ UNCHANGED <<ticks, runs, script, accounts, contractAddress, signature,
                   isValid, tx, receipt, stdout, stderr, exitStatus, calls,
                   chainVars>>
    /\ UNCHANGED extVars

\* demo-complete-flow.js: user.signMessage(messageHash), answered by the node
SignMessage ==
    /\ pc = "sign"
    /\ \E sig \in SignatureInputs(userAccount(accounts), record[1]) :
           signature' = <<sig>>
    /\ pc' = "verify"
    /\ UNCHANGED <<ticks, runs, script, accounts, contractAddress, record,
                   commitment, isValid, tx, receipt, error, stdout, stderr,
                   exitStatus, calls, chainVars>>
    /\ UNCHANGED extVars

\* fault variant: the recovered address is compared as it is written
signatureIsValidCaseSensitive(message, sig, sender) ==
    verifyMessage(message, sig) = sender

\* recoveredAddress.toLowerCase() === transferPayload.sender.toLowerCase()
signatureIsValid(message, sig, sender) ==
    toLowerCase(verifyMessage(message, sig)) = toLowerCase(sender)

\* demo-complete-flow.js: verifyMessage, isValid, throw 'Invalid signature'
VerifySignature ==
    /\ pc = "verify"
    /\ IF verifyMessageThrows(signature[1])
       THEN /\ error' = Thrown("InvalidSignatureFormat")
            /\ pc' = "rejected"
            /\ UNCHANGED <<isValid, stdout>>
       ELSE IF signatureIsValid(commitment[1], signature[1], record[1].sender)
       THEN /\ isValid' = "true"
            /\ stdout' = stdout \cup {"SignatureValid"}
            /\ pc' = "submit"
            /\ UNCHANGED error
       ELSE /\ isValid' = "false"
            /\ stdout' = stdout \cup {"SignatureInvalid"}
            /\ error' = Thrown("InvalidSignature")
            /\ pc' = "rejected"
    /\ UNCHANGED <<ticks, runs, script, accounts, contractAddress, record,
                   commitment, signature, tx, receipt, stderr, exitStatus, calls,
                   chainVars>>
    /\ UNCHANGED extVars

\* fault variant: the complete flow derives the commitment again from a
\* payload rebuilt when it submits
SubmitTransferRederived ==
    /\ pc = "submit"
    /\ LET c == IF script = "completeFlow"
                THEN commitmentOf(script, buildRecord)
                ELSE commitment[1]
           call == submitTransferCall(relayerAccount(script, accounts),
                                      contractAddress[1], c)
       IN /\ calls' = Append(calls, call)
          /\ tx' = <<[call |-> call, status |-> "pending",
                      submittedAt |-> ticks, events |-> <<>>]>>
    /\ pc' = "wait"
    /\ UNCHANGED <<ticks, runs, script, accounts, contractAddress, record,
                   commitment, signature, isValid, receipt, error, stdout,
                   stderr, exitStatus, deployed, vaultLog, vaultStorage>>
    /\ UNCHANGED extVars

\* contract.submitTransfer(commitment) returns a transaction handle
SubmitTransfer ==
    /\ pc = "submit"
    /\ LET call == submitTransferCall(relayerAccount(script, accounts),
                                      contractAddress[1], commitment[1])
       IN /\ calls' = Append(calls, call)
          /\ tx' = <<[call |-> call, status |-> "pending",
                      submittedAt |-> ticks, events |-> <<>>]>>
    /\ pc' = "wait"
    /\ UNCHANGED <<ticks, runs, script, accounts, contractAddress, record,
                   commitment, signature, isValid, receipt, error, stdout,
                   stderr, exitStatus, deployed, vaultLog, vaultStorage>>
    /\ UNCHANGED extVars

\* fault variant: a refused call is tried again
SubmitTransferRetried ==
    /\ pc = "submit"
    /\ calls' = Append(calls,
                       submitTransferCall(relayerAccount(script, accounts),
                                          contractAddress[1], commitment[1]))
    /\ UNCHANGED <<ticks, runs, script, pc, accounts, contractAddress, record,
                   commitment, signature, isValid, tx, receipt, error, stdout,
                   stderr, exitStatus, deployed, vaultLog, vaultStorage>>
    /\ UNCHANGED extVars

\* contract.submitTransfer(commitment) throws: the node refuses the
\* transaction (no funds, no gas estimate, network error)
SubmitTransferThrows ==
    /\ pc = "submit"
    /\ calls' = Append(calls,
                       submitTransferCall(relayerAccount(script, accounts),
                                          contractAddress[1], commitment[1]))
    /\ error' = Thrown("SubmitError")
    /\ pc' = "rejected"
    /\ UNCHANGED <<ticks, runs, script, accounts, contractAddress, record,
                   commitment, signature, isValid, tx, receipt, stdout,
                   stderr, exitStatus, deployed, vaultLog, vaultStorage>>
    /\ UNCHANGED extVars

\* the chain mines the pending transaction: the vault executes
\* submitTransfer; the code at a foreign address does whatever it does
LedgerMines ==
    /\ tx # <<>>
    /\ tx[1].status = "pending"
    /\ LET call == tx[1].call IN
       IF call.to.kind = "vault"
       THEN LET r == submitTransfer(call.to, vaultLog, vaultStorage,
                                    call.args[1])
            IN IF r.reverts
               THEN /\ tx' = <<[tx[1] EXCEPT !.status = "reverted"]>>
                    /\ UNCHANGED <<vaultLog, vaultStorage>>
               ELSE /\ vaultLog' = r.log
                    /\ vaultStorage' = r.storage
                    /\ tx' = <<[tx[1] EXCEPT !.status = "mined",
                                             !.events = r.events]>>
       ELSE /\ \E ev \in ForeignEmissions(record[1]) :
                   tx' = <<[tx[1] EXCEPT !.status = "mined", !.events = ev]>>
            /\ UNCHANGED <<vaultLog, vaultStorage>>
    /\ UNCHANGED <<ticks, runs, script, pc, accounts, contractAddress, record,
                   commitment, signature, isValid, receipt, error, stdout,
                   stderr, exitStatus, calls, deployed>>
    /\ UNCHANGED extVars

\* the chain drops or reverts the pending transaction
LedgerFails ==
    /\ tx # <<>>
    /\ tx[1].status = "pending"
    /\ tx' = <<[tx[1] EXCEPT !.status = "failed"]>>
    /\ UNCHANGED <<ticks, runs, script, pc, accounts, contractAddress, record,
                   commitment, signature, isValid, receipt, error, stdout,
                   stderr, exitStatus, calls, chainVars>>
    /\ UNCHANGED extVars

\* await tx.wait() returns the receipt of the mined transaction
WaitReturns ==
    /\ pc = "wait"
    /\ tx[1].status = "mined"
    /\ receipt' = <<[events |-> tx[1].events]>>
    /\ pc' = "check"
    /\ UNCHANGED <<ticks, runs, script, accounts, contractAddress, record,
                   commitment, signature, isValid, tx, error, stdout, stderr,
                   exitStatus, calls, chainVars>>
    /\ UNCHANGED extVars

\* fault variant: the error of tx.wait() is caught and dropped
WaitErrorSwallowed ==
    /\ pc = "wait"
    /\ tx[1].status \in {"failed", "reverted"}
    /\ pc' = "resolved"
    /\ UNCHANGED <<ticks, runs, script, accounts, contractAddress, record,
                   commitment, signature, isValid, tx, receipt, error, stdout,
                   stderr, exitStatus, calls, chainVars>>
    /\ UNCHANGED extVars

\* await tx.wait() throws: the transaction was dropped or reverted
WaitThrows ==
    /\ pc = "wait"
    /\ tx[1].status \in {"failed", "reverted"}
    /\ error' = Thrown("WaitError")
    /\ pc' = "rejected"
    /\ UNCHANGED <<ticks, runs, script, accounts, contractAddress, record,
                   commitment, signature, isValid, tx, receipt, stdout,
                   stderr, exitStatus, calls, chainVars>>
    /\ UNCHANGED extVars

\* the caller gives up while tx.wait() is pending and interrupts the
\* process: no handler runs, nothing is logged, the process ends on the
\* signal (status 130 in a shell); the transaction stays with the chain
CallerAbandons ==
    /\ pc = "wait"
    /\ tx[1].status = "pending"
    /\ exitStatus' = <<130>>
    /\ pc' = "exited"
    /\ UNCHANGED <<ticks, runs, script, accounts, contractAddress, record,
                   commitment, signature, isValid, tx, receipt, error, stdout,
                   stderr, calls, chainVars>>
    /\ UNCHANGED extVars

\* relayer.js: print every PrivateTransfer log of the receipt
\* demo-complete-flow.js: report success when a PrivateTransfer event is found
ShowEvents ==
    /\ pc = "check"
    /\ script \in {"relayer", "completeFlow"}
    /\ stdout' = IF hasPrivateTransfer(receipt[1].events)
                 THEN stdout \cup {IF script = "relayer" THEN "EventShown"
                                   ELSE "Succeeded"}
                 ELSE stdout
    /\ pc' = "resolved"
    /\ UNCHANGED <<ticks, runs, script, accounts, contractAddress, record,
                   commitment, signature, isValid, tx, receipt, error, stderr,
                   exitStatus, calls, chainVars>>
    /\ UNCHANGED extVars

\* scripts/test-sepolia.js, step 5: receipt.events[0].args.commitment is
\* compared with the local commitment, then the completion message
VerifyCommitment ==
    /\ pc = "check"
    /\ script \in SepoliaScripts
    /\ IF receipt[1].events = <<>>
       THEN /\ error' = Thrown("TypeError")
            /\ pc' = "rejected"
            /\ UNCHANGED stdout
       ELSE /\ stdout' = stdout \cup
                  {verifyReceipt(commitment[1], receipt[1].events[1].commitment),
                   "Completed"}
            /\ pc' = "resolved"
            /\ UNCHANGED error
    /\ UNCHANGED <<ticks, runs, script, accounts, contractAddress, record,
                   commitment, signature, isValid, tx, receipt, stderr,
                   exitStatus, calls, chainVars>>
    /\ UNCHANGED extVars

\* main() resolved: .then(() => process.exit(0)); relayer.js just ends
ExitResolved ==
    /\ pc = "resolved"
    /\ exitStatus' = <<0>>
    /\ pc' = "exited"
    /\ UNCHANGED <<ticks, runs, script, accounts, contractAddress, record,
                   commitment, signature, isValid, tx, receipt, error, stdout,
                   stderr, calls, chainVars>>
    /\ UNCHANGED extVars

\* main() rejected: the catch handler logs the error and the process ends
ExitRejected ==
    /\ pc = "rejected"
    /\ stderr' = error
    /\ exitStatus' = <<exitStatusOnError(script)>>
    /\ pc' = "exited"
    /\ UNCHANGED <<ticks, runs, script, accounts, contractAddress, record,
                   commitment, signature, isValid, tx, receipt, error, stdout,
                   calls, chainVars>>
    /\ UNCHANGED extVars

Next ==
    \/ Tick
    \/ \E s \in Scripts : StartRun(s)
    \/ ConnectAndDeploy
    \/ ConnectAndAttach
    \/ ConnectThrows
    \/ BuildCommitment
    \/ SignMessage
    \/ VerifySignature
    \/ SubmitTransfer
    \/ SubmitTransferThrows
    \/ LedgerMines
    \/ LedgerFails
    \/ WaitReturns
    \/ WaitThrows
    \/ CallerAbandons
    \/ ShowEvents
    \/ VerifyCommitment
    \/ ExitResolved
    \/ ExitRejected

Spec == Init /\ [][Next]_vars

(***************************************************************************)
(* The pipeline state of the run, read off the script's position and       *)
(* variables: Received once the run holds a transfer, Authenticated once   *)
(* isValid is true, Submitted once submitTransfer returned a handle,       *)
(* Confirmed once tx.wait() returned a receipt, Failed once main() threw   *)
(* before a receipt was received.                                          *)
(***************************************************************************)
State ==
    CASE pc = "idle" -> "Idle"
      [] receipt # <<>> -> "Confirmed"
      [] error # <<>> -> IF record # <<>> THEN "Failed" ELSE "SetupFailed"
      [] tx # <<>> -> "Submitted"
      [] isValid = "true" -> "Authenticated"
      [] record # <<>> -> "Received"
      [] OTHER -> "Setup"

\* the reason of a failure, by the step that threw
FailureReason ==
    IF error = <<>> THEN "None"
    ELSE CASE error[1].at = "verify" -> "AuthenticationFailed"
           [] error[1].at \in {"submit", "wait"} -> "SubmissionRejected"
           [] error[1].at = "check" -> "ReceiptUnreadable"
           [] OTHER -> "SetupError"

\* messages that report the transfer or the test as successful
SuccessMessages == {"EventShown", "Succeeded", "Match", "Completed"}

\* the signature authenticates the transfer: it recovers to the sender
Authentic(r, sig) ==
    /\ sig.wellFormed
    /\ verifyMessage(createCommitment(r), sig).bytes = r.sender.bytes

\* the commitment the script read from the receipt's first event
HasEmitted == receipt # <<>> /\ receipt[1].events # <<>>

EmittedCommitment == receipt[1].events[1].commitment

(***************************************************************************)
(* C1.  submitTransfer is called only after the (record, signature) pair   *)
(* was authenticated; when authentication fails the run ends in            *)
(* Failed(AuthenticationFailed) without a submitTransfer call.             *)
(* relayer.js and scripts/test-sepolia.js submit with no signature check.  *)
(***************************************************************************)
C1_SubmitOnlyAfterAuthentication ==
    /\ calls # <<>> =>
           /\ isValid = "true"
           /\ signature # <<>>
           /\ Authentic(record[1], signature[1])
    /\ (signature # <<>> /\ pc \notin {"verify"}
            /\ ~Authentic(record[1], signature[1])) =>
           /\ State = "Failed"
           /\ FailureReason = "AuthenticationFailed"
           /\ calls = <<>>

(***************************************************************************)
(* C2.  The only value passed to submitTransfer is the commitment of the   *)
(* run's record: one argument, no record field beside it, so records with  *)
(* the same commitment give the same call.                                 *)
(***************************************************************************)
\* records that differ from r in the letter case of an address (the same
\* commitment) or in the timestamp (another commitment)
RecordVariants(r) ==
    { [r EXCEPT !.sender = AddressString(r.sender.bytes, f),
                !.recipient = AddressString(r.recipient.bytes, g),
                !.timestamp = t] :
        f \in {"lower", "checksum"}, g \in {"lower", "checksum"},
        t \in {r.timestamp, r.timestamp + 1} }

C2_OnlyCommitmentSubmitted ==
    \A i \in 1..Len(calls) :
        /\ calls[i].args = <<createCommitment(record[1])>>
        /\ \A r2 \in RecordVariants(record[1]) :
               createCommitment(r2) = createCommitment(record[1]) =>
                   submitTransferCall(calls[i].from, calls[i].to,
                                      createCommitment(r2)) = calls[i]

C2_Witness ==
    /\ pc = "exited"
    /\ Len(calls) = 1
    /\ receipt # <<>>
    /\ \E r2 \in RecordVariants(record[1]) :
           r2 # record[1] /\ createCommitment(r2) = createCommitment(record[1])

(***************************************************************************)
(* C3.  The account that sends the transaction is never the sender of the  *)
(* record.  relayer.js on a Hardhat node and the earlier test-sepolia.js   *)
(* (sender = signerAddress) send it from the sender's own account.         *)
(***************************************************************************)
C3_RelayerIsNotSender ==
    \A i \in 1..Len(calls) : calls[i].from # record[1].sender.bytes

(***************************************************************************)
(* C4.  A mined submitTransfer(c) appends exactly one PrivateTransfer      *)
(* event carrying c to the vault's log and changes nothing else: earlier   *)
(* events stay as they are and no storage is written.                      *)
(***************************************************************************)
VaultCallMined ==
    /\ tx # <<>> /\ tx' # <<>>
    /\ tx[1].status = "pending" /\ tx'[1].status = "mined"
    /\ tx[1].call.to.kind = "vault"

C4_AppendOnlyLog ==
    [][ /\ vaultStorage' = vaultStorage
        /\ IF VaultCallMined
           THEN /\ vaultLog' =
                       Append(vaultLog,
                              [address |-> tx[1].call.to,
                               event |-> PrivateTransfer(tx[1].call.args[1])])
                /\ tx'[1].events = <<PrivateTransfer(tx[1].call.args[1])>>
           ELSE vaultLog' = vaultLog ]_vars

C4_Witness ==
    /\ Len(vaultLog) = 2
    /\ vaultLog[1].address = vaultLog[2].address
    /\ receipt # <<>>

(***************************************************************************)
(* C5.  The confirmation check of test-sepolia.js reports the success      *)
(* outcome exactly when the commitment read from the receipt's event       *)
(* equals the local commitment, and the mismatch outcome otherwise.        *)
(***************************************************************************)
C5_MatchIffEqual ==
    /\ (script \in SepoliaScripts /\ pc \in {"resolved", "exited"}
            /\ HasEmitted) =>
           /\ "Match" \in stdout <=> EmittedCommitment = commitment[1]
           /\ "Mismatch" \in stdout <=> EmittedCommitment # commitment[1]
    /\ (stdout \cap {"Match", "Mismatch"} # {}) =>
           script \in SepoliaScripts /\ pc \in {"resolved", "exited"}

C5_Witness ==
    /\ pc = "exited"
    /\ "Mismatch" \in stdout
    /\ EmittedCommitment # commitment[1]

(***************************************************************************)
(* C6.  When the emitted commitment differs from the local one the run     *)
(* ends in a failure: it is not reported as successful and does not exit   *)
(* with status 0.  test-sepolia.js logs the mismatch, then "Test completed *)
(* successfully", and exits with status 0.                                 *)
(***************************************************************************)
C6_MismatchIsFailure ==
    (pc = "exited" /\ HasEmitted /\ EmittedCommitment # commitment[1]) =>
        /\ exitStatus # <<0>>
        /\ stdout \cap {"Completed", "Succeeded"} = {}

(***************************************************************************)
(* C7.  A run moves Received, Authenticated, Submitted, then Confirmed or  *)
(* Failed, in that order; Failed is entered from Received, Authenticated   *)
(* or Submitted only.  relayer.js and test-sepolia.js go from Received to  *)
(* Submitted.                                                              *)
(***************************************************************************)
PipelineTransitions ==
    { <<"Setup", "Received">>, <<"Setup", "SetupFailed">>,
      <<"Received", "Authenticated">>, <<"Authenticated", "Submitted">>,
      <<"Submitted", "Confirmed">>, <<"Received", "Failed">>,
      <<"Authenticated", "Failed">>, <<"Submitted", "Failed">> }

C7_StateOrder ==
    [][ (runs' = runs /\ State' # State) =>
            <<State, State'>> \in PipelineTransitions ]_vars

(***************************************************************************)
(* C8.  Nothing is retried: a run calls submitTransfer at most once, and   *)
(* once it is Confirmed or Failed it makes no further call and its state   *)
(* does not change (a new run is the caller's doing).                      *)
(***************************************************************************)
C8_NoRetry ==
    [][ runs' = runs =>
            /\ Len(calls') <= 1
            /\ State \in {"Confirmed", "Failed"} =>
                   /\ State' = State
                   /\ calls' = calls
                   /\ tx' = tx ]_vars

C8_Witness ==
    /\ pc = "exited"
    /\ State = "Failed"
    /\ FailureReason = "SubmissionRejected"
    /\ Len(calls) = 1

(***************************************************************************)
(* C9.  An error of the submit call or of the wait ends the run in         *)
(* Failed(SubmissionRejected): main() stops there, no receipt is held, no  *)
(* success is reported, and the top-level handler logs the error.          *)
(***************************************************************************)
C9_SubmissionRejected ==
    /\ (tx # <<>> /\ tx[1].status = "failed") => pc \notin {"check", "resolved"}
    /\ (error # <<>> /\ error[1].at \in {"submit", "wait"}) =>
           /\ pc \in {"rejected", "exited"}
           /\ State = "Failed"
           /\ FailureReason = "SubmissionRejected"
           /\ receipt = <<>>
           /\ stdout \cap SuccessMessages = {}
           /\ pc = "exited" => stderr = error

C9_Witness ==
    /\ pc = "exited"
    /\ error # <<>>
    /\ error[1].at = "wait"
    /\ stderr = error

(***************************************************************************)
(* C10.  When the chain never produces a receipt the run leaves Submitted  *)
(* at the deadline.  tx.wait() is called without a timeout: the run is     *)
(* still waiting after the deadline.                                       *)
(***************************************************************************)
C10_TimeoutAtDeadline ==
    (State = "Submitted" /\ tx[1].status = "pending") =>
        ticks <= tx[1].submittedAt + DeadlineTicks

(***************************************************************************)
(* C12.  The vault accepts a commitment it has already emitted: the        *)
(* second call is mined like the first, a second PrivateTransfer event     *)
(* with the same value is appended, and the run that made it is Confirmed  *)
(* without an error.                                                       *)
(***************************************************************************)
\* the vault event the pending call emits when mined
PendingEvent ==
    [address |-> tx[1].call.to, event |-> PrivateTransfer(tx[1].call.args[1])]

\* the pending call carries a commitment the same vault already emitted
AlreadyRecorded ==
    /\ tx # <<>>
    /\ tx[1].status = "pending"
    /\ tx[1].call.to.kind = "vault"
    /\ \E i \in 1..Len(vaultLog) : vaultLog[i] = PendingEvent

\* the run holds the receipt of a call whose commitment is twice in the log
ConfirmedTwice ==
    /\ receipt # <<>>
    /\ tx[1].call.to.kind = "vault"
    /\ \E i, j \in 1..Len(vaultLog) :
           /\ i < j
           /\ vaultLog[i] = vaultLog[j]
           /\ vaultLog[j] = PendingEvent

C12_ResubmissionAccepted ==
    /\ [](ConfirmedTwice =>
             /\ error = <<>>
             /\ State = "Confirmed"
             /\ EmittedCommitment = commitment[1]
             /\ pc = "exited" => exitStatus = <<0>>)
    /\ [][ (AlreadyRecorded /\ tx' # <<>>
               /\ tx'[1].status \notin {"pending", "failed"}) =>
                /\ tx'[1].status = "mined"
                /\ tx'[1].events = <<PendingEvent.event>>
                /\ vaultLog' = Append(vaultLog, PendingEvent) ]_vars

C12_Witness ==
    /\ pc = "exited"
    /\ exitStatus = <<0>>
    /\ "Match" \in stdout
    /\ ConfirmedTwice

(***************************************************************************)
(* C13.  The commitment is a function of the record alone, and the four    *)
(* places that compute it (createCommitment in relayer.js, signPayload in  *)
(* demo.js, demo-complete-flow.js, scripts/test-sepolia.js) give the same  *)
(* value for the same record: the commitment the run holds is the one      *)
(* every other implementation computes for the run's record, whatever the  *)
(* script, the clock or the chain.                                         *)
(***************************************************************************)
ImplementationsAgree(r) ==
    /\ messageHash(r) = createCommitment(r)
    /\ completeFlowCommitment(r) = createCommitment(r)
    /\ sepoliaCommitment(r.sender, r.recipient, r.amount, r.timestamp)
           = createCommitment(r)

C13_SameCommitmentEverywhere ==
    /\ record # <<>> =>
           \A r \in RecordVariants(record[1]) : ImplementationsAgree(r)
    /\ commitment # <<>> =>
           \A s \in Scripts : commitmentOf(s, record[1]) = commitment[1]

C13_Witness ==
    /\ script = "testSepolia"
    /\ pc = "exited"
    /\ receipt # <<>>
    /\ commitment = <<messageHash(record[1])>>

(***************************************************************************)
(* C14.  Changing one field of the run's record to another value (another  *)
(* 20-byte address, another amount, another timestamp) changes the         *)
(* commitment, and so does exchanging the sender with the recipient or the *)
(* amount with the timestamp.  The hash is taken as collision free.        *)
(***************************************************************************)
AddressInputs ==
    { AddressString(b, f) :
        b \in {HardhatAccount0, HardhatAccount1, HardhatAccount2,
                SepoliaAccountA, SepoliaAccountB},
        f \in ValidAddressForms }

AmountInputs == {"0", "1000", "1001", "1000000000000000", "15000000000000000"}

\* numbers small enough to stand in both uint256 fields
UintInputs == {0, 1, 1000, 1001}

C14_FieldSensitive ==
    record # <<>> =>
        LET r == record[1]
            c == createCommitment(r)
        IN /\ \A a \in AddressInputs :
                  /\ a.bytes # r.sender.bytes =>
                         createCommitment([r EXCEPT !.sender = a]) # c
                  /\ a.bytes # r.recipient.bytes =>
                         createCommitment([r EXCEPT !.recipient = a]) # c
           /\ \A a \in AmountInputs :
                  a # r.amount => createCommitment([r EXCEPT !.amount = a]) # c
           /\ \A t \in UintInputs \cup {r.timestamp + 1} :
                  t # r.timestamp =>
                      createCommitment([r EXCEPT !.timestamp = t]) # c
           /\ r.sender.bytes # r.recipient.bytes =>
                  createCommitment([r EXCEPT !.sender = r.recipient,
                                            !.recipient = r.sender]) # c
           /\ \A n, m \in UintInputs \cup {r.timestamp} :
                  n # m =>
                      createCommitment([r EXCEPT !.amount = ToString(n),
                                                !.timestamp = m])
                        # createCommitment([r EXCEPT !.amount = ToString(m),
                                                    !.timestamp = n])

C14_Witness ==
    /\ pc = "exited"
    /\ receipt # <<>>
    /\ record[1].sender.bytes # record[1].recipient.bytes
    /\ record[1].amount = ToString(1000)
    /\ record[1].timestamp # 1000
    /\ commitment = <<createCommitment(record[1])>>

(***************************************************************************)
(* C15.  A signature over the commitment of a record authenticates exactly *)
(* when it was made with the key of the record's sender, however the       *)
(* sender's address is written; the complete flow accepts the signature    *)
(* the node returned exactly in that case.                                 *)
(***************************************************************************)
\* the keys a signature can be made with, named by their account
KeyInputs ==
    {HardhatAccount0, HardhatAccount1, HardhatAccount2, SepoliaAccountA,
     SepoliaAccountB}

C15_SenderKeyAuthenticates ==
    /\ record # <<>> =>
           \A r \in RecordVariants(record[1]) : \A k \in KeyInputs :
               signatureIsValid(createCommitment(r),
                                signMessage(k, createCommitment(r)), r.sender)
                 <=> k = r.sender.bytes
    /\ (signature # <<>> /\ pc # "verify") =>
           (isValid = "true"
              <=> signature[1] = signMessage(record[1].sender.bytes,
                                             commitment[1]))

C15_Witness ==
    /\ pc = "exited"
    /\ isValid = "false"
    /\ signature[1].signer # record[1].sender.bytes
    /\ signature[1].digest = hashMessage(commitment[1])

(***************************************************************************)
(* C16.  relayer.js run on a payload other than its built-in one.  When    *)
(* an address of the payload is not a valid address, or its amount does    *)
(* not fit a uint256, createCommitment throws (InvalidAddress,             *)
(* AmountOverflow) out of main(): no commitment is held, submitTransfer is *)
(* never called for the record and the vault of the run emits nothing.     *)
(***************************************************************************)
\* payloads the relayer can be handed: valid ones, a sender with a wrong
\* checksum, a truncated recipient, amounts outside uint256
PayloadInputs ==
    { TransferRecord(s, r, a, Date_now) :
        s \in {AddressString(HardhatAccount0, "lower"),
                AddressString(HardhatAccount0, "badChecksum")},
        r \in {AddressString(HardhatAccount1, "lower"),
                AddressString("7099", "truncated")},
        a \in {"1000"} \cup OutOfRangeAmounts }

RecordError(r) == abiEncodeError(r.sender, r.recipient, r.amount, r.timestamp)

\* the caller starts relayer.js holding the payload p
StartRelayerWith(p) == StartProcess("relayer", <<p>>)

PayloadNext ==
    \/ Tick
    \/ \E p \in PayloadInputs : StartRelayerWith(p)
    \/ ConnectAndDeploy
    \/ ConnectThrows
    \/ BuildCommitment
    \/ SubmitTransfer
    \/ SubmitTransferThrows
    \/ LedgerMines
    \/ LedgerFails
    \/ WaitReturns
    \/ WaitThrows
    \/ ShowEvents
    \/ ExitResolved
    \/ ExitRejected

PayloadSpec == Init /\ [][PayloadNext]_vars

C16_InvalidRecordNotSubmitted ==
    (record # <<>> /\ RecordError(record[1]) # "none") =>
        /\ commitment = <<>>
        /\ calls = <<>>
        /\ tx = <<>>
        /\ pc \in {"connect", "build", "rejected", "exited"}
        /\ pc \in {"rejected", "exited"} =>
               /\ error # <<>>
               /\ error[1].at = "build" =>
                      error[1].kind = RecordError(record[1])
        /\ contractAddress # <<>> =>
               \A i \in 1..Len(vaultLog) :
                   vaultLog[i].address # contractAddress[1]

C16_Witness ==
    /\ pc = "exited"
    /\ record # <<>>
    /\ record[1].amount = TwoTo256
    /\ error # <<>>
    /\ error[1] = [kind |-> "AmountOverflow", at |-> "build"]
    /\ contractAddress # <<>>
    /\ calls = <<>>

(***************************************************************************)
(* C17.  Two relayer.js processes at the same time against one chain.      *)
(* Each process has its own memory; the chain is all they share.  The      *)
(* second process is `other`, with the steps of relayer.js main().         *)
(***************************************************************************)
OtherUnchanged ==
    UNCHANGED <<ticks, runs, pc, runVars, userSigned, addressFile,
                sepoliaConfig>>

\* the second process is started: encryptedPayload is built at load time
OtherStart ==
    /\ other.pc = "idle"
    /\ other' = [other EXCEPT !.pc = "connect",
                               !.record = <<encryptedPayload>>]
    /\ UNCHANGED chainVars
    /\ OtherUnchanged

\* getSigner, deployContract
OtherConnectAndDeploy ==
    /\ other.pc = "connect"
    /\ deployed' = deployed + 1
    /\ other' = [other EXCEPT !.pc = "build",
                               !.contractAddress = <<VaultAddress(deployed + 1)>>]
    /\ UNCHANGED <<vaultLog, vaultStorage>>
    /\ OtherUnchanged

\* decryptPayload, createCommitment
OtherBuildCommitment ==
    /\ other.pc = "build"
    /\ other' = [other EXCEPT
                     !.pc = "submit",
                     !.record = <<decryptPayload(other.record[1])>>,
                     !.commitment =
                         <<createCommitment(decryptPayload(other.record[1]))>>]
    /\ UNCHANGED chainVars
    /\ OtherUnchanged

\* the transaction the second process sends from the node's first account
OtherCall(c) ==
    [run |-> 0, from |-> HardhatAccount0, to |-> other.contractAddress[1],
     args |-> <<c>>]

\* fault variant: the commitment is taken from a variable both processes
\* write
OtherSubmitTransferShared ==
    /\ other.pc = "submit"
    /\ commitment # <<>>
    /\ LET call == OtherCall(commitment[1])
       IN other' = [other EXCEPT
                       !.pc = "wait",
                       !.calls = Append(other.calls, call),
                       !.tx = <<[call |-> call, status |-> "pending",
                                 submittedAt |-> ticks, events |-> <<>>]>>]
    /\ UNCHANGED chainVars
    /\ OtherUnchanged

\* submitCommitment: contract.submitTransfer(commitment)
OtherSubmitTransfer ==
    /\ other.pc = "submit"
    /\ LET call == OtherCall(other.commitment[1])
       IN other' = [other EXCEPT
                       !.pc = "wait",
                       !.calls = Append(other.calls, call),
                       !.tx = <<[call |-> call, status |-> "pending",
                                 submittedAt |-> ticks, events |-> <<>>]>>]
    /\ UNCHANGED chainVars
    /\ OtherUnchanged

\* contract.submitTransfer(commitment) throws
OtherSubmitTransferThrows ==
    /\ other.pc = "submit"
    /\ other' = [other EXCEPT
                     !.pc = "exited",
                     !.calls = Append(other.calls,
                                      OtherCall(other.commitment[1])),
                     !.error = <<[kind |-> "SubmitError", at |-> "submit"]>>]
    /\ UNCHANGED chainVars
    /\ OtherUnchanged

\* the chain mines the transaction of the second process
OtherLedgerMines ==
    /\ other.tx # <<>>
    /\ other.tx[1].status = "pending"
    /\ LET call == other.tx[1].call
           r == submitTransfer(call.to, vaultLog, vaultStorage, call.args[1])
       IN IF r.reverts
          THEN /\ other' = [other EXCEPT !.tx[1].status = "reverted"]
               /\ UNCHANGED <<vaultLog, vaultStorage>>
          ELSE /\ vaultLog' = r.log
               /\ vaultStorage' = r.storage
               /\ other' = [other EXCEPT !.tx[1].status = "mined",
                                          !.tx[1].events = r.events]
    /\ UNCHANGED deployed
    /\ OtherUnchanged

\* the chain drops the transaction of the second process
OtherLedgerFails ==
    /\ other.tx # <<>>
    /\ other.tx[1].status = "pending"
    /\ other' = [other EXCEPT !.tx[1].status = "failed"]
    /\ UNCHANGED chainVars
    /\ OtherUnchanged

\* tx.wait() returns the receipt; the events are printed and main() ends
OtherWaitReturns ==
    /\ other.pc = "wait"
    /\ other.tx[1].status = "mined"
    /\ other' = [other EXCEPT !.pc = "exited",
                               !.receipt = <<[events |-> other.tx[1].events]>>]
    /\ UNCHANGED chainVars
    /\ OtherUnchanged

\* tx.wait() throws; main().catch logs the error
OtherWaitThrows ==
    /\ other.pc = "wait"
    /\ other.tx[1].status \in {"failed", "reverted"}
    /\ other' = [other EXCEPT
                     !.pc = "exited",
                     !.error = <<[kind |-> "WaitError", at |-> "wait"]>>]
    /\ UNCHANGED chainVars
    /\ OtherUnchanged

ConcurrentNext ==
    \/ Tick
    \/ StartRun("relayer")
    \/ ConnectAndDeploy
    \/ ConnectThrows
    \/ BuildCommitment
    \/ SubmitTransfer
    \/ SubmitTransferThrows
    \/ LedgerMines
    \/ LedgerFails
    \/ WaitReturns
    \/ WaitThrows
    \/ ShowEvents
    \/ ExitResolved
    \/ ExitRejected
    \/ OtherStart
    \/ OtherConnectAndDeploy
    \/ OtherBuildCommitment
    \/ OtherSubmitTransfer
    \/ OtherSubmitTransferThrows
    \/ OtherLedgerMines
    \/ OtherLedgerFails
    \/ OtherWaitReturns
    \/ OtherWaitThrows

ConcurrentSpec == Init /\ [][ConcurrentNext]_vars

\* the events the vault at address a has emitted, in order
EventsOf(a) ==
    SelectSeq(vaultLog, LAMBDA e : e.address = a)

\* what a relayer.js process with these locals has made the chain record
RecordedBy(p) ==
    IF p.tx # <<>> /\ p.tx[1].status = "mined"
    THEN <<[address |-> p.contractAddress[1],
            event |-> PrivateTransfer(createCommitment(p.record[1]))]>>
    ELSE <<>>

\* the locals of the first process, laid out like those of the second
This ==
    [pc |-> pc, contractAddress |-> contractAddress, record |-> record,
     commitment |-> commitment, tx |-> tx, receipt |-> receipt,
     error |-> error, calls |-> calls]

\* the outcome of a process follows from its own record and the fate of
\* its own transaction
OwnOutcome(p) ==
    /\ \A i \in 1..Len(p.calls) :
           /\ p.calls[i].args = <<createCommitment(p.record[1])>>
           /\ p.calls[i].to = p.contractAddress[1]
    /\ p.receipt # <<>> =>
           /\ p.tx[1].status = "mined"
           /\ p.receipt[1].events =
                  <<PrivateTransfer(createCommitment(p.record[1]))>>
    /\ (p.error # <<>> /\ p.error[1].at = "wait") =>
           p.tx[1].status = "failed"
    /\ p.contractAddress # <<>> => EventsOf(p.contractAddress[1]) = RecordedBy(p)

C17_IndependentRuns ==
    /\ [](OwnOutcome(This) /\ OwnOutcome(other))
    /\ []((contractAddress # <<>> /\ other.contractAddress # <<>>) =>
              contractAddress # other.contractAddress)
    /\ [][ /\ other' # other => UNCHANGED <<pc, runVars>>
           /\ <<pc, runVars>>' # <<pc, runVars>> => other' = other ]_vars

C17_Witness ==
    /\ pc = "exited" /\ other.pc = "exited"
    /\ receipt # <<>> /\ other.receipt # <<>>
    /\ commitment # other.commitment
    /\ Len(vaultLog) >= 2
    /\ vaultLog[Len(vaultLog)].address = contractAddress[1]
    /\ vaultLog[Len(vaultLog) - 1].address = other.contractAddress[1]
    /\ contractAddress[1].id < other.contractAddress[1].id

(***************************************************************************)
(* C18.  When the caller abandons the wait the run ends in                 *)
(* Failed(Cancelled): a failure is reported, and it is neither the one of  *)
(* a refused or failed transaction nor a success.  The scripts have no     *)
(* cancellation: the only way to abandon tx.wait() is to interrupt the     *)
(* process, which ends with no outcome reported at all.                    *)
(***************************************************************************)
Abandoned == pc = "exited" /\ exitStatus = <<130>>

C18_CancelledIsReported ==
    Abandoned =>
        /\ State = "Failed"
        /\ error # <<>>
        /\ stderr = error
        /\ FailureReason \notin {"None", "SubmissionRejected"}

(***************************************************************************)
(* C19.  The step-by-step demo: node demo.js, then node relayer.js.  The   *)
(* commitment relayer.js submits is the commitment hash demo.js computed   *)
(* and signed.  Each script builds its own payload with its own            *)
(* Date.now(), and nothing passes from demo.js to relayer.js.              *)
(***************************************************************************)
\* the wallet of demo.js: new ethers.Wallet(userPrivateKey), account #0
userWallet == HardhatAccount0

\* demo.js signPayload: the hash and the wallet's signature over its bytes
signPayload(wallet, p) ==
    [messageHash |-> messageHash(p),
     signature |-> signMessage(wallet, messageHash(p))]

\* the caller starts demo.js
StartDemo == StartProcess("demo", <<payload>>)

\* demo.js main: sign the payload, print the hash and the signature
UserSigns ==
    /\ pc = "userSign"
    /\ LET signed == signPayload(userWallet, record[1])
       IN /\ commitment' = <<signed.messageHash>>
          /\ signature' = <<signed.signature>>
          /\ userSigned' = <<signed>>
    /\ pc' = "resolved"
    /\ UNCHANGED <<ticks, runs, script, accounts, contractAddress, record,
                   isValid, tx, receipt, error, stdout, stderr, exitStatus,
                   calls, chainVars, addressFile, other, sepoliaConfig>>

StepByStepNext ==
    \/ Tick
    \/ StartDemo
    \/ UserSigns
    \/ StartRun("relayer")
    \/ ConnectAndDeploy
    \/ ConnectThrows
    \/ BuildCommitment
    \/ SubmitTransfer
    \/ SubmitTransferThrows
    \/ LedgerMines
    \/ LedgerFails
    \/ WaitReturns
    \/ WaitThrows
    \/ ShowEvents
    \/ ExitResolved
    \/ ExitRejected

StepByStepSpec == Init /\ [][StepByStepNext]_vars

C19_RelayerSubmitsSignedCommitment ==
    (script = "relayer" /\ userSigned # <<>>) =>
        \A i \in 1..Len(calls) :
            calls[i].args = <<userSigned[1].messageHash>>

(***************************************************************************)
(* C20.  scripts/deploy.js.  The address is written to .contract-address   *)
(* only once contract.deployed() has resolved, and it is the address of    *)
(* the contract this run deployed; when connecting, deploying or writing   *)
(* fails nothing is written and the process exits with status 1.           *)
(***************************************************************************)
deployLocals ==
    <<ticks, runs, script, record, commitment, signature, isValid, tx,
      receipt, stdout, stderr, exitStatus, calls, vaultLog, vaultStorage,
      userSigned, other, sepoliaConfig>>

\* the caller starts scripts/deploy.js
StartDeploy == StartProcess("deploy", <<>>)

\* read the artifact, provider.getSigner(0), signer.getAddress()
DeployConnects ==
    /\ pc = "connect"
    /\ script = "deploy"
    /\ \E accts \in NodeAccountLists : accounts' = accts
    /\ pc' = "deploy"
    /\ UNCHANGED <<deployLocals, contractAddress, error, deployed, addressFile>>

\* fault variant: the address is written as soon as the deployment is sent
DeploySendsAndSaves ==
    /\ pc = "deploy"
    /\ contractAddress' = <<VaultAddress(deployed + 1)>>
    /\ addressFile' = <<VaultAddress(deployed + 1)>>
    /\ pc' = "deploying"
    /\ UNCHANGED <<deployLocals, accounts, error, deployed>>

\* factory.deploy() returns the contract object: the deployment transaction
\* is sent and the address the contract will have is known
DeploySends ==
    /\ pc = "deploy"
    /\ contractAddress' = <<VaultAddress(deployed + 1)>>
    /\ pc' = "deploying"
    /\ UNCHANGED <<deployLocals, accounts, error, deployed, addressFile>>

\* factory.deploy() throws: the node refuses the deployment
DeploySendThrows ==
    /\ pc = "deploy"
    /\ error' = Thrown("DeployError")
    /\ pc' = "rejected"
    /\ UNCHANGED <<deployLocals, accounts, contractAddress, deployed,
                   addressFile>>

\* contract.deployed() resolves: the deployment is mined
DeploymentMined ==
    /\ pc = "deploying"
    /\ deployed' = deployed + 1
    /\ pc' = "save"
    /\ UNCHANGED <<deployLocals, accounts, contractAddress, error, addressFile>>

\* contract.deployed() rejects: the deployment failed
DeploymentFails ==
    /\ pc = "deploying"
    /\ error' = Thrown("DeployError")
    /\ pc' = "rejected"
    /\ UNCHANGED <<deployLocals, accounts, contractAddress, deployed,
                   addressFile>>

\* fs.writeFileSync(".contract-address", deployedAddress)
SaveAddress ==
    /\ pc = "save"
    /\ addressFile' = contractAddress
    /\ pc' = "resolved"
    /\ UNCHANGED <<deployLocals, accounts, contractAddress, error, deployed>>

\* fs.writeFileSync throws: the file cannot be written
SaveAddressThrows ==
    /\ pc = "save"
    /\ error' = Thrown("WriteError")
    /\ pc' = "rejected"
    /\ UNCHANGED <<deployLocals, accounts, contractAddress, deployed,
                   addressFile>>

DeployNext ==
    \/ Tick
    \/ StartDeploy
    \/ DeployConnects
    \/ ConnectThrows
    \/ DeploySends
    \/ DeploySendThrows
    \/ DeploymentMined
    \/ DeploymentFails
    \/ SaveAddress
    \/ SaveAddressThrows
    \/ ExitResolved
    \/ ExitRejected

DeploySpec == Init /\ [][DeployNext]_vars

C20_AddressSavedAfterDeployment ==
    /\ [][ addressFile' # addressFile =>
               /\ pc = "save"
               /\ error = <<>>
               /\ addressFile' = contractAddress
               /\ contractAddress = <<VaultAddress(deployed)>> ]_vars
    /\ [][ (runs' = runs /\ (error # <<>> \/ error' # <<>>)) =>
               addressFile' = addressFile ]_vars
    /\ [](error # <<>> =>
             /\ pc \in {"rejected", "exited"}
             /\ contractAddress # <<>> => addressFile # contractAddress
             /\ pc = "exited" => exitStatus = <<1>>)
    /\ []((pc = "exited" /\ error = <<>>) =>
              /\ exitStatus = <<0>>
              /\ addressFile = contractAddress
              /\ contractAddress[1].id <= deployed)

C20_Witness ==
    /\ pc = "exited"
    /\ runs = 2
    /\ error # <<>>
    /\ error[1].at = "deploying"
    /\ exitStatus = <<1>>
    /\ addressFile = <<VaultAddress(deployed)>>
    /\ contractAddress = <<VaultAddress(deployed + 1)>>

(***************************************************************************)
(* C11.  Runs against a chain that mines every transaction it accepted.    *)
(* The script is a chain of awaits, so a step that can be taken is taken;  *)
(* the chain is assumed to mine what is pending.  Then every submission    *)
(* made after a successful signature check reaches Confirmed with a        *)
(* receipt whose event carries the submitted commitment, and every run     *)
(* that holds a record reaches Confirmed or Failed.                        *)
(***************************************************************************)
\* the steps main() takes by itself on such a chain
MiningRunStep ==
    \/ ConnectAndDeploy
    \/ ConnectAndAttach
    \/ ConnectThrows
    \/ BuildCommitment
    \/ SignMessage
    \/ VerifySignature
    \/ SubmitTransfer
    \/ SubmitTransferThrows
    \/ WaitReturns
    \/ ShowEvents
    \/ VerifyCommitment
    \/ ExitResolved
    \/ ExitRejected

MiningNext ==
    \/ Tick
    \/ \E s \in Scripts : StartRun(s)
    \/ MiningRunStep
    \/ LedgerMines

MiningSpec ==
    /\ Init
    /\ [][MiningNext]_vars
    /\ WF_vars(MiningRunStep)
    /\ WF_vars(LedgerMines)

AuthenticatedSubmission ==
    /\ isValid = "true"
    /\ tx # <<>>
    /\ receipt = <<>>

ConfirmedWithCommitment ==
    /\ State = "Confirmed"
    /\ HasEmitted
    /\ EmittedCommitment = commitment[1]
    /\ tx[1].call.args = <<commitment[1]>>

C11_EventuallyConfirmed ==
    /\ AuthenticatedSubmission ~> ConfirmedWithCommitment
    /\ (State = "Received") ~> (State \in {"Confirmed", "Failed"})

C11_Witness ==
    /\ pc = "exited"
    /\ isValid = "true"
    /\ ConfirmedWithCommitment

(***************************************************************************)
(* The Sepolia scripts and their configuration.  A string is the sequence  *)
(* of its parts: an address, or white space; the empty string is <<>>.     *)
(* process.env.CONTRACT_ADDRESS is <<>> when unset and <<string>> when     *)
(* set; .sepolia-contract-address is <<>> when there is no such file and   *)
(* <<content>> otherwise.                                                  *)
(***************************************************************************)
Newline == [kind |-> "whitespace", id |-> 0]

RECURSIVE trimStart(_)
trimStart(text) ==
    IF text # <<>> /\ Head(text) = Newline THEN trimStart(Tail(text)) ELSE text

RECURSIVE trimEnd(_)
trimEnd(text) ==
    IF text # <<>> /\ text[Len(text)] = Newline
    THEN trimEnd(SubSeq(text, 1, Len(text) - 1))
    ELSE text

\* String.prototype.trim
trim(text) == trimEnd(trimStart(text))

\* getDeployedContractAddress: the trimmed content of the file; any error
\* of readFileSync becomes the 'Contract address file not found' error
getDeployedContractAddress ==
    IF sepoliaAddressFile = <<>>
    THEN [threw |-> TRUE, value |-> <<>>]
    ELSE [threw |-> FALSE, value |-> trim(sepoliaAddressFile[1])]

\* fault variant: the file is preferred to the environment variable
contractAddressFileFirst ==
    IF sepoliaAddressFile # <<>>
    THEN [threw |-> FALSE, value |-> trim(sepoliaAddressFile[1])]
    ELSE IF processEnv # <<>> /\ processEnv[1] # <<>>
    THEN [threw |-> FALSE, value |-> processEnv[1]]
    ELSE [threw |-> TRUE, value |-> <<>>]

\* process.env.CONTRACT_ADDRESS || getDeployedContractAddress(): the
\* variable when it holds a non-empty string, else the file
configuredContractAddress ==
    IF processEnv # <<>> /\ processEnv[1] # <<>>
    THEN [threw |-> FALSE, value |-> processEnv[1]]
    ELSE getDeployedContractAddress

\* what the operator can put in CONTRACT_ADDRESS
EnvInputs ==
    {<<>>, << <<>> >>, << <<VaultAddress(1)>> >>, << <<ForeignAddress>> >>}

\* what the operator can leave in .sepolia-contract-address: no file, the
\* address, the address followed by a line break
FileInputs ==
    {<<>>, << <<VaultAddress(1)>> >>, << <<VaultAddress(1), Newline>> >>}

\* between two runs the operator edits .env or the address file
OperatorConfigures ==
    /\ pc \in {"idle", "exited"}
    /\ \E e \in EnvInputs, f \in FileInputs :
           /\ <<e, f>> # <<processEnv, sepoliaAddressFile>>
           /\ processEnv' = e
           /\ sepoliaAddressFile' = f
    /\ pc' = "idle"
    /\ UNCHANGED <<ticks, runs, runVars, chainVars, userSigned, addressFile,
                   other>>

\* scripts/test-sepolia.js, step 1: contractAddress, getSigners, attach
AttachConfigured ==
    /\ pc = "connect"
    /\ script \in SepoliaScripts
    /\ IF configuredContractAddress.threw
       THEN /\ error' = Thrown("ContractAddressFileNotFound")
            /\ pc' = "rejected"
            /\ UNCHANGED <<accounts, contractAddress>>
       ELSE /\ \E accts \in NodeAccountLists : accounts' = accts
            /\ contractAddress' = configuredContractAddress.value
            /\ pc' = "build"
            /\ UNCHANGED error
    /\ UNCHANGED <<ticks, runs, script, record, commitment, signature,
                   isValid, tx, receipt, stdout, stderr, exitStatus, calls,
                   chainVars>>
    /\ UNCHANGED extVars

\* getSigners or getContractFactory throws once the address is known
SignersThrow ==
    /\ pc = "connect"
    /\ script \in SepoliaScripts
    /\ ~configuredContractAddress.threw
    /\ contractAddress' = configuredContractAddress.value
    /\ error' = Thrown("ConnectError")
    /\ pc' = "rejected"
    /\ UNCHANGED <<ticks, runs, script, accounts, record, commitment,
                   signature, isValid, tx, receipt, stdout, stderr, exitStatus,
                   calls, chainVars>>
    /\ UNCHANGED extVars

\* the caller starts scripts/deploy-sepolia.js
StartDeploySepolia == StartProcess("deploySepolia", <<>>)

\* getContractFactory, PrivateTransferVault.deploy(): the deployment
\* transaction is sent and the address the contract will have is known
DeploySepoliaSends ==
    /\ pc = "connect"
    /\ script = "deploySepolia"
    /\ contractAddress' = <<VaultAddress(deployed + 1)>>
    /\ pc' = "deployingSepolia"
    /\ UNCHANGED <<deployLocals, accounts, error, deployed, addressFile>>

\* getContractFactory or deploy() throws
DeploySepoliaSendThrows ==
    /\ pc = "connect"
    /\ script = "deploySepolia"
    /\ error' = Thrown("DeployError")
    /\ pc' = "rejected"
    /\ UNCHANGED <<deployLocals, accounts, contractAddress, deployed,
                   addressFile>>

\* vault.deployed() resolves; the script then sleeps 60 seconds
SepoliaDeploymentMined ==
    /\ pc = "deployingSepolia"
    /\ deployed' = deployed + 1
    /\ pc' = "verify"
    /\ UNCHANGED <<deployLocals, accounts, contractAddress, error, addressFile>>

\* vault.deployed() rejects
SepoliaDeploymentFails ==
    /\ pc = "deployingSepolia"
    /\ error' = Thrown("DeployError")
    /\ pc' = "rejected"
    /\ UNCHANGED <<deployLocals, accounts, contractAddress, deployed,
                   addressFile>>

verifyLocals ==
    <<ticks, runs, script, accounts, contractAddress, record, commitment,
      signature, isValid, tx, receipt, stderr, exitStatus, calls, chainVars,
      userSigned, addressFile, other, processEnv>>

\* fault variant: the error of the verification task leaves main()
VerificationFailsFatally ==
    /\ pc = "verify"
    /\ error' = Thrown("VerificationError")
    /\ pc' = "rejected"
    /\ UNCHANGED <<verifyLocals, stdout, sepoliaAddressFile>>

\* hre.run("verify:verify") resolves
VerificationSucceeds ==
    /\ pc = "verify"
    /\ stdout' = stdout \cup {"Verified"}
    /\ pc' = "saveSepolia"
    /\ UNCHANGED <<verifyLocals, error, sepoliaAddressFile>>

\* hre.run("verify:verify") throws: the catch block logs the message
VerificationFails ==
    /\ pc = "verify"
    /\ stdout' = stdout \cup {"VerificationError"}
    /\ pc' = "saveSepolia"
    /\ UNCHANGED <<verifyLocals, error, sepoliaAddressFile>>

\* fs.writeFileSync(".sepolia-contract-address", vault.address)
SaveSepoliaAddress ==
    /\ pc = "saveSepolia"
    /\ sepoliaAddressFile' = <<contractAddress>>
    /\ stdout' = stdout \cup {"AddressSaved"}
    /\ pc' = "resolved"
    /\ UNCHANGED <<verifyLocals, error>>

SepoliaNext ==
    \/ Tick
    \/ OperatorConfigures
    \/ \E s \in SepoliaScripts : StartRun(s)
    \/ AttachConfigured
    \/ SignersThrow
    \/ BuildCommitment
    \/ SubmitTransfer
    \/ SubmitTransferThrows
    \/ LedgerMines
    \/ LedgerFails
    \/ WaitReturns
    \/ WaitThrows
    \/ VerifyCommitment
    \/ StartDeploySepolia
    \/ DeploySepoliaSends
    \/ DeploySepoliaSendThrows
    \/ SepoliaDeploymentMined
    \/ SepoliaDeploymentFails
    \/ VerificationSucceeds
    \/ VerificationFails
    \/ SaveSepoliaAddress
    \/ ExitResolved
    \/ ExitRejected

SepoliaSpec == Init /\ [][SepoliaNext]_vars

(***************************************************************************)
(* C21.  The Sepolia test talks to the contract named by CONTRACT_ADDRESS  *)
(* when that variable holds a value, else to the one named by the content  *)
(* of .sepolia-contract-address without its surrounding white space; with  *)
(* neither it throws 'Contract address file not found' before anything is  *)
(* built or submitted, and the process exits with status 1.                *)
(***************************************************************************)
EnvAddressSet == processEnv # <<>> /\ processEnv[1] # <<>>

\* the address written in a text, its white space left out
AddressIn(text) == SelectSeq(text, LAMBDA part : part # Newline)

FileNotFound == <<[kind |-> "ContractAddressFileNotFound", at |-> "connect"]>>

C21_ContractAddressSource ==
    (script \in SepoliaScripts /\ pc \notin {"idle", "connect"}) =>
        /\ EnvAddressSet => contractAddress = processEnv[1]
        /\ (~EnvAddressSet /\ sepoliaAddressFile # <<>>) =>
               contractAddress = AddressIn(sepoliaAddressFile[1])
        /\ (~EnvAddressSet /\ sepoliaAddressFile = <<>>) =>
               /\ error = FileNotFound
               /\ pc \in {"rejected", "exited"}
               /\ record = <<>> /\ commitment = <<>>
               /\ calls = <<>> /\ tx = <<>>
               /\ pc = "exited" => (exitStatus = <<1>> /\ stderr = error)
        /\ error = FileNotFound =>
               (~EnvAddressSet /\ sepoliaAddressFile = <<>>)
        /\ \A i \in 1..Len(calls) : <<calls[i].to>> = contractAddress

C21_Witness ==
    /\ script = "testSepolia"
    /\ pc = "exited"
    /\ processEnv = << <<>> >>
    /\ error = FileNotFound
    /\ exitStatus = <<1>>

(***************************************************************************)
(* C22.  deploy-sepolia.js.  A failed Etherscan verification is logged and *)
(* nothing more: once the deployment is confirmed the run saves the        *)
(* address of the contract it deployed and exits with status 0, verified   *)
(* or not.  The file is written only after vault.deployed() resolved and   *)
(* the verification attempt ended.                                         *)
(***************************************************************************)
DeploymentConfirmed ==
    /\ script = "deploySepolia"
    /\ contractAddress # <<>>
    /\ contractAddress[1].id <= deployed

VerificationAttempted == stdout \cap {"Verified", "VerificationError"} # {}

C23_ExitStatusReflectsOutcome ==
    (pc = "exited" /\ ~Abandoned) =>
        /\ exitStatus = <<0>> <=> error = <<>>
        /\ error # <<>> => (stderr = error /\ exitStatus = <<1>>)

(***************************************************************************)
(* C24.  The timestamp of every record whose commitment is computed is a   *)
(* number of seconds since the epoch: the seconds of some instant up to    *)
(* now.  relayer.js, demo.js and demo-complete-flow.js store Date.now(),   *)
(* which is milliseconds; only test-sepolia.js divides by 1000.            *)
(***************************************************************************)
\* the instants up to now, in seconds since the epoch
SecondsSoFar == { (t * TickMs) \div MsPerSecond : t \in 0..ticks }

C24_TimestampInSeconds ==
    (record # <<>> /\ pc # "idle") => record[1].timestamp \in SecondsSoFar

(***************************************************************************)
(* C25.  Two separate submissions never carry the same commitment, so the  *)
(* events of the chain all differ in their commitment.  Every run makes    *)
(* one submission; two runs of test-sepolia.js within the same second, or  *)
(* of relayer.js within the same millisecond, build the same record.       *)
(***************************************************************************)
C25_CommitmentsUnique ==
    \A i, j \in 1..Len(vaultLog) :
        i # j => vaultLog[i].event.commitment # vaultLog[j].event.commitment

(***************************************************************************)
(* C26.  A signature binds one exact record: a signature that              *)
(* authenticates a record authenticates no record that differs from it in  *)
(* sender, recipient, amount or timestamp, and a run whose record is not   *)
(* the one the user's signature was made over calls submitTransfer never   *)
(* and, once set up, ends in Failed(AuthenticationFailed).  relayer.js     *)
(* checks no signature (C1): after demo.js has signed, it submits the      *)
(* commitment of a record with another timestamp.                          *)
(***************************************************************************)
\* the records that differ from r in the value of one field
AlteredRecords(r) ==
    { [r EXCEPT !.sender = a] :
          a \in {x \in AddressInputs : x.bytes # r.sender.bytes} }
      \cup { [r EXCEPT !.recipient = a] :
                 a \in {x \in AddressInputs : x.bytes # r.recipient.bytes} }
      \cup { [r EXCEPT !.amount = a] : a \in AmountInputs \ {r.amount} }
      \cup { [r EXCEPT !.timestamp = t] :
                 t \in (UintInputs \cup {r.timestamp + 1}) \ {r.timestamp} }

\* the signatures the user has made: this run's, and the one demo.js printed
UserSignatures ==
    {signature[i] : i \in 1..Len(signature)}
      \cup {userSigned[i].signature : i \in 1..Len(userSigned)}

C26_SignatureBindsRecord ==
    (record # <<>> /\ pc \notin {"userSign", "sign", "verify"}) =>
        \A sig \in UserSignatures :
            /\ Authentic(record[1], sig) =>
                   \A r \in AlteredRecords(record[1]) : ~Authentic(r, sig)
            /\ ~Authentic(record[1], sig) =>
                   /\ calls = <<>>
                   /\ (pc = "exited" /\ FailureReason # "SetupError") =>
                          /\ State = "Failed"
                          /\ FailureReason = "AuthenticationFailed"

(***************************************************************************)
(* C27.  The local deployment: npx hardhat run scripts/deploy.js, then     *)
(* node relayer.js.  relayer.js submits its commitment to the contract     *)
(* whose address the last deploy.js run saved in .contract-address, and    *)
(* deploys or uses no other contract.  relayer.js main calls               *)
(* deployContract() and never reads the file.                              *)
(***************************************************************************)
LocalDeploymentNext ==
    \/ Tick
    \/ StartDeploy
    \/ DeployConnects
    \/ ConnectThrows
    \/ DeploySends
    \/ DeploySendThrows
    \/ DeploymentMined
    \/ DeploymentFails
    \/ SaveAddress
    \/ SaveAddressThrows
    \/ ExitResolved
    \/ ExitRejected
    \/ StartRun("relayer")
    \/ ConnectAndDeploy
    \/ BuildCommitment
    \/ SubmitTransfer
    \/ SubmitTransferThrows
    \/ LedgerMines
    \/ LedgerFails
    \/ WaitReturns
    \/ WaitThrows
    \/ ShowEvents

LocalDeploymentSpec == Init /\ [][LocalDeploymentNext]_vars

C27_RelayerUsesSavedAddress ==
    (script = "relayer" /\ addressFile # <<>>) =>
        /\ contractAddress # <<>> => contractAddress = addressFile
        /\ \A i \in 1..Len(calls) : <<calls[i].to>> = addressFile

(***************************************************************************)
(* C28.  demo-complete-flow.js.  The commitment passed to submitTransfer   *)
(* is the commitment the signature was verified against and the            *)
(* commitment of the run's record; from the verification to the end of     *)
(* the run neither the record nor the commitment changes, and the event    *)
(* the run's transaction emits carries that commitment and no other.       *)
(***************************************************************************)
C28_AuthenticatedCommitmentSubmitted ==
    /\ [](script = "completeFlow" =>
              /\ \A i \in 1..Len(calls) :
                     /\ calls[i].args = commitment
                     /\ commitment = <<createCommitment(record[1])>>
                     /\ isValid = "true"
                     /\ signatureIsValid(calls[i].args[1], signature[1],
                                         record[1].sender)
              /\ (tx # <<>> /\ tx[1].status = "mined") =>
                     \A k \in 1..Len(tx[1].events) :
                         tx[1].events[k].commitment = commitment[1])
    /\ [][ (script = "completeFlow" /\ runs' = runs
              /\ pc \notin {"connect", "build"}) =>
               /\ record' = record
               /\ commitment' = commitment ]_vars

C28_Witness ==
    /\ script = "completeFlow"
    /\ pc = "exited"
    /\ isValid = "true"
    /\ HasEmitted
    /\ record[1].timestamp # Date_now
    /\ calls[1].args = <<createCommitment(record[1])>>
    /\ EmittedCommitment = createCommitment(record[1])

====
